---- MODULE Spec2Model ----
(***************************************************************************)
(* Model of the Rokid Air / Max driver (src/src/rokid.rs): the interrupt   *)
(* packet dispatch of RokidAir::read_event, the key / proximity edge       *)
(* detectors and the accelerometer / gyroscope pairing, together with the  *)
(* event queue they feed.                                                  *)
(***************************************************************************)
EXTENDS Integers, Sequences, FiniteSets, TLC

(***************************************************************************)
(* Bounds of the model.                                                    *)
(***************************************************************************)
\* split-sensor timestamps are drawn from 1..MaxTs
MaxTs == 2
\* the per-call read counter saturates at MaxReads
MaxReads == 2
\* number of packets recorded by the history specification SpecH
MaxPackets == 2

(***************************************************************************)
(* Program constants.                                                      *)
(***************************************************************************)
TagMisc == 2
TagSensor == 4
TagCombined == 17
SensorAccelerometer == 1
SensorGyroscope == 2
SensorMagnetometer == 3
KeyBits == 8
CombinedTimestampDivisor == 1000

(***************************************************************************)
(* Inputs: the values the packet fields are drawn from.                    *)
(***************************************************************************)
\* key bitmasks (u8): none, one key, all keys
KeyMasks == {0, 1, 255}
\* proximity_raw values (u8): near, and two far readings
ProxValues == {0, 5, 9}
\* the proximity_raw values the combined frames are drawn with
CombinedProxValues == {0, 5}
Timestamps == 1..MaxTs
\* sensor vectors are payloads the driver only copies: two distinct tokens
Vectors == {1, 2}
\* the sensor_type bytes of a tag-4 packet that the driver knows
SensorTypes == {SensorAccelerometer, SensorGyroscope, SensorMagnetometer}
\* sensor_type bytes it does not know
UnknownSensorTypes == {0, 7}
\* raw timestamps of combined frames, on the device's native clock
CombinedTimestamps == {1999, 3000}
\* tag bytes that are none of 2, 4, 17
OtherTags == {0, 99}
\* errors a failed interrupt read can return
TransportErrors == {"Timeout", "NoDevice"}

(***************************************************************************)
(* Data: Option<(Vector3, u64)>, GlassesEvent, and the decoded views of a  *)
(* 64-byte interrupt packet.                                               *)
(***************************************************************************)
None == [some |-> FALSE, vec |-> 0, ts |-> 0]

Some(v, t) == [some |-> TRUE, vec |-> v, ts |-> t]

KeyPress(bit) ==
    [type |-> "KeyPress", bit |-> bit, accelerometer |-> 0, gyroscope |-> 0,
     magnetometer |-> 0, timestamp |-> 0]

ProximityNear ==
    [type |-> "ProximityNear", bit |-> 0, accelerometer |-> 0, gyroscope |-> 0,
     magnetometer |-> 0, timestamp |-> 0]

ProximityFar ==
    [type |-> "ProximityFar", bit |-> 0, accelerometer |-> 0, gyroscope |-> 0,
     magnetometer |-> 0, timestamp |-> 0]

AccGyro(a, g, t) ==
    [type |-> "AccGyro", bit |-> 0, accelerometer |-> a, gyroscope |-> g,
     magnetometer |-> 0, timestamp |-> t]

Magnetometer(m, t) ==
    [type |-> "Magnetometer", bit |-> 0, accelerometer |-> 0, gyroscope |-> 0,
     magnetometer |-> m, timestamp |-> t]

\* MiscPacket: the tag-2 view of the buffer
MiscPacket(keys, prox) ==
    [tag |-> TagMisc, sensor_type |-> 0, timestamp |-> 0, vector |-> 0,
     accelerometer |-> 0, gyroscope |-> 0, magnetometer |-> 0,
     keys_pressed |-> keys, proxy_sensor |-> prox]

\* SensorPacket: the tag-4 view of the buffer
SensorPacket(kind, t, v) ==
    [tag |-> TagSensor, sensor_type |-> kind, timestamp |-> t, vector |-> v,
     accelerometer |-> 0, gyroscope |-> 0, magnetometer |-> 0,
     keys_pressed |-> 0, proxy_sensor |-> 0]

\* CombinedPacket: the tag-17 view of the buffer
CombinedPacket(t, a, g, m, keys, prox) ==
    [tag |-> TagCombined, sensor_type |-> 0, timestamp |-> t, vector |-> 0,
     accelerometer |-> a, gyroscope |-> g, magnetometer |-> m,
     keys_pressed |-> keys, proxy_sensor |-> prox]

\* a buffer with an unknown tag; its other bytes are arbitrary, here bytes
\* that every known view would turn into events
OtherPacket(tag) ==
    [tag |-> tag, sensor_type |-> SensorMagnetometer, timestamp |-> 1, vector |-> 1,
     accelerometer |-> 1, gyroscope |-> 1, magnetometer |-> 1,
     keys_pressed |-> 255, proxy_sensor |-> 5]

NoPacket ==
    [tag |-> -1, sensor_type |-> 0, timestamp |-> 0, vector |-> 0,
     accelerometer |-> 0, gyroscope |-> 0, magnetometer |-> 0,
     keys_pressed |-> 0, proxy_sensor |-> 0]

MiscPackets == {MiscPacket(k, x) : k \in KeyMasks, x \in ProxValues}

SensorPackets ==
    {SensorPacket(s, t, v) : s \in SensorTypes, t \in Timestamps, v \in Vectors}
        \cup {SensorPacket(s, 1, 1) : s \in UnknownSensorTypes}

CombinedPackets ==
    {CombinedPacket(t, 1, 2, 3, k, x) : t \in CombinedTimestamps, k \in KeyMasks, x \in CombinedProxValues}

OtherPackets == {OtherPacket(g) : g \in OtherTags}

Packets == MiscPackets \cup SensorPackets \cup CombinedPackets \cup OtherPackets

(***************************************************************************)
(* u8 bit operations.                                                      *)
(***************************************************************************)
Pow2(n) == 2 ^ n

Bit(x, i) == (x \div Pow2(i)) % 2

RECURSIVE BitAndFrom(_, _, _)
BitAndFrom(a, b, i) ==
    IF i >= KeyBits THEN 0
    ELSE Pow2(i) * Bit(a, i) * Bit(b, i) + BitAndFrom(a, b, i + 1)

BitAnd(a, b) == BitAndFrom(a, b, 0)

BitNot(a) == (Pow2(KeyBits) - 1) - a

(***************************************************************************)
(* The session's fusion state and event queue as one record, so that the   *)
(* handlers are functions from state to state.                             *)
(***************************************************************************)
VARIABLES
    last_accelerometer,     \* Option<(Vector3, u64)>
    last_gyroscope,         \* Option<(Vector3, u64)>
    previous_key_states,    \* u8
    proxy_sensor_was_far,   \* bool
    pending_events,         \* VecDeque<GlassesEvent>
    pc,                     \* "idle": no call in progress; "loop": inside read_event
    reads,                  \* interrupt reads done by the current call, saturating at MaxReads
    result,                 \* what the last finished read_event call returned
    transport_error,        \* observer: the error of the current call's failed read_interrupt, "" if none
    last,                   \* observer: the last packet read, the state before it, the events it pushed
    recv,                   \* observer: last key bitmask and proximity value received, last proximity event pushed
    tracking,               \* observer: whether the history below is recorded
    packets,                \* observer: the packets read so far
    produced,               \* observer: the events pushed so far, packet by packet
    delivered,              \* observer: the events returned so far, call by call
    ctl                     \* the control operation in progress: its arguments, the transfers it
                            \* issued, the transport's answer and what it returned

event_vars ==
    <<last_accelerometer, last_gyroscope, previous_key_states, proxy_sensor_was_far,
      pending_events, pc, reads, result, transport_error, last, recv, tracking, packets,
      produced, delivered>>

vars == <<event_vars, ctl>>

Self ==
    [last_accelerometer |-> last_accelerometer,
     last_gyroscope |-> last_gyroscope,
     previous_key_states |-> previous_key_states,
     proxy_sensor_was_far |-> proxy_sensor_was_far,
     pending_events |-> pending_events]

new_common ==
    [last_accelerometer |-> None,
     last_gyroscope |-> None,
     previous_key_states |-> 0,
     proxy_sensor_was_far |-> FALSE,
     pending_events |-> <<>>]

push_back(self, event) ==
    [self EXCEPT !.pending_events = Append(@, event)]

RECURSIVE key_press_loop(_, _, _)
key_press_loop(self, new_presses, bit) ==
    IF bit >= KeyBits THEN self
    ELSE key_press_loop(
            IF Bit(new_presses, bit) # 0
            THEN push_back(self, KeyPress(bit))
            ELSE self,
            new_presses, bit + 1)

\* mutant: level-triggered keys, the mask with the previous bitmask is missing
handle_key_press_level(self, keys_pressed) ==
    LET looped == key_press_loop(self, keys_pressed, 0)
    IN  [looped EXCEPT !.previous_key_states = keys_pressed]

handle_key_press(self, keys_pressed) ==
    LET new_presses == BitAnd(keys_pressed, BitNot(self.previous_key_states))
        looped == key_press_loop(self, new_presses, 0)
    IN  [looped EXCEPT !.previous_key_states = keys_pressed]

\* mutant: the new proximity state is not stored
handle_proxy_sensor_unstored(self, value) ==
    LET proxy_sensor_is_far == value # 0
        send_proxy_event == proxy_sensor_is_far # self.proxy_sensor_was_far
    IN  IF send_proxy_event
        THEN push_back(self, IF proxy_sensor_is_far THEN ProximityFar ELSE ProximityNear)
        ELSE self

handle_proxy_sensor(self, value) ==
    LET proxy_sensor_is_far == value # 0
        send_proxy_event == proxy_sensor_is_far # self.proxy_sensor_was_far
        stored == [self EXCEPT !.proxy_sensor_was_far = proxy_sensor_is_far]
    IN  IF send_proxy_event
        THEN push_back(stored, IF proxy_sensor_is_far THEN ProximityFar ELSE ProximityNear)
        ELSE stored

\* mutant: a pending sample is kept when a newer one of its kind arrives
store_sensor_sample_first_wins(self, packet) ==
    CASE packet.sensor_type = SensorAccelerometer ->
            IF self.last_accelerometer.some THEN self
            ELSE [self EXCEPT !.last_accelerometer = Some(packet.vector, packet.timestamp)]
      [] packet.sensor_type = SensorGyroscope ->
            IF self.last_gyroscope.some THEN self
            ELSE [self EXCEPT !.last_gyroscope = Some(packet.vector, packet.timestamp)]
      [] packet.sensor_type = SensorMagnetometer ->
            push_back(self, Magnetometer(packet.vector, packet.timestamp))
      [] OTHER -> self

\* mutant: the gyroscope and magnetometer arms are swapped
store_sensor_sample_swapped(self, packet) ==
    CASE packet.sensor_type = SensorAccelerometer ->
            [self EXCEPT !.last_accelerometer = Some(packet.vector, packet.timestamp)]
      [] packet.sensor_type = SensorMagnetometer ->
            [self EXCEPT !.last_gyroscope = Some(packet.vector, packet.timestamp)]
      [] packet.sensor_type = SensorGyroscope ->
            push_back(self, Magnetometer(packet.vector, packet.timestamp))
      [] OTHER -> self

\* the match on packet.sensor_type of a tag-4 packet
store_sensor_sample(self, packet) ==
    CASE packet.sensor_type = SensorAccelerometer ->
            [self EXCEPT !.last_accelerometer = Some(packet.vector, packet.timestamp)]
      [] packet.sensor_type = SensorGyroscope ->
            [self EXCEPT !.last_gyroscope = Some(packet.vector, packet.timestamp)]
      [] packet.sensor_type = SensorMagnetometer ->
            push_back(self, Magnetometer(packet.vector, packet.timestamp))
      [] OTHER -> self

\* mutant: a matched pair is emitted but the two slots are not cleared
pair_sensor_samples_keep(self) ==
    IF /\ self.last_accelerometer.some
       /\ self.last_gyroscope.some
       /\ self.last_accelerometer.ts = self.last_gyroscope.ts
    THEN push_back(self,
            AccGyro(self.last_accelerometer.vec, self.last_gyroscope.vec,
                    self.last_accelerometer.ts))
    ELSE self

\* the `if let (Some(..), Some(..))` that follows the match
pair_sensor_samples(self) ==
    IF /\ self.last_accelerometer.some
       /\ self.last_gyroscope.some
       /\ self.last_accelerometer.ts = self.last_gyroscope.ts
    THEN push_back(
            [self EXCEPT !.last_gyroscope = None, !.last_accelerometer = None],
            AccGyro(self.last_accelerometer.vec, self.last_gyroscope.vec,
                    self.last_accelerometer.ts))
    ELSE self

\* mutant: the proximity sensor is handled before the keys
handle_misc_packet_proxy_first(self, packet) ==
    handle_key_press(handle_proxy_sensor(self, packet.proxy_sensor), packet.keys_pressed)

handle_misc_packet(self, packet) ==
    handle_proxy_sensor(handle_key_press(self, packet.keys_pressed), packet.proxy_sensor)

\* mutant: the pair is looked for before the packet's sample is stored
handle_sensor_packet_pair_first(self, packet) ==
    store_sensor_sample(pair_sensor_samples(self), packet)

handle_sensor_packet(self, packet) ==
    pair_sensor_samples(store_sensor_sample(self, packet))

\* mutant: a combined frame resets the split-stream pending samples
handle_combined_packet_clearing(self, packet) ==
    LET timestamp == packet.timestamp \div CombinedTimestampDivisor
        s0 == [self EXCEPT !.last_accelerometer = None, !.last_gyroscope = None]
        s1 == push_back(s0, AccGyro(packet.accelerometer, packet.gyroscope, timestamp))
        s2 == push_back(s1, Magnetometer(packet.magnetometer, timestamp))
        s3 == handle_key_press(s2, packet.keys_pressed)
    IN  handle_proxy_sensor(s3, packet.proxy_sensor)

handle_combined_packet(self, packet) ==
    LET timestamp == packet.timestamp \div CombinedTimestampDivisor
        s1 == push_back(self, AccGyro(packet.accelerometer, packet.gyroscope, timestamp))
        s2 == push_back(s1, Magnetometer(packet.magnetometer, timestamp))
        s3 == handle_key_press(s2, packet.keys_pressed)
    IN  handle_proxy_sensor(s3, packet.proxy_sensor)

\* mutant: the default arm handles the buffer as a key / proximity packet
process_packet_default_misc(self, packet) ==
    CASE packet.tag = TagMisc -> handle_misc_packet(self, packet)
      [] packet.tag = TagSensor -> handle_sensor_packet(self, packet)
      [] packet.tag = TagCombined -> handle_combined_packet(self, packet)
      [] OTHER -> handle_misc_packet(self, packet)

\* `match packet_data[0]`
process_packet(self, packet) ==
    CASE packet.tag = TagMisc -> handle_misc_packet(self, packet)
      [] packet.tag = TagSensor -> handle_sensor_packet(self, packet)
      [] packet.tag = TagCombined -> handle_combined_packet(self, packet)
      [] OTHER -> self

\* mutant: the loop goes on reading until two events are queued
while_condition_greedy(self) == Len(self.pending_events) < 2

\* mutant: `if` in place of `while`, the queue is tested before the first read only
while_condition_once(self) == self.pending_events = <<>> /\ reads = 0

\* mutant: `loop { .. if !is_empty { break } }`, the first read precedes the test
while_condition_do_while(self) == self.pending_events = <<>> \/ reads = 0

\* `while self.pending_events.is_empty()`
while_condition(self) == self.pending_events = <<>>

\* mutant: the newest event is popped
pop_back(queue) ==
    IF queue = <<>>
    THEN [value |-> None, rest |-> <<>>]
    ELSE [value |-> [some |-> TRUE, vec |-> queue[Len(queue)], ts |-> 0],
          rest |-> SubSeq(queue, 1, Len(queue) - 1)]

\* `self.pending_events.pop_front()`: the value popped and the queue left
pop_front(queue) ==
    IF queue = <<>>
    THEN [value |-> None, rest |-> <<>>]
    ELSE [value |-> [some |-> TRUE, vec |-> Head(queue), ts |-> 0], rest |-> Tail(queue)]

(***************************************************************************)
(* Results of read_event.                                                  *)
(***************************************************************************)
NoResult == [kind |-> "none", event |-> NoPacket, error |-> ""]

Ok(event) == [kind |-> "ok", event |-> event, error |-> ""]

Err(error) == [kind |-> "err", event |-> NoPacket, error |-> error]

\* `.unwrap()` of an empty Option panics
Panic == [kind |-> "panic", event |-> NoPacket, error |-> ""]

(***************************************************************************)
(* Control transfers: what the session hands to the transport, what the    *)
(* transport answers, and what an operation returns.                       *)
(***************************************************************************)
\* size of the response buffer, and the byte count read_value expects
ResponseSize == 64

\* errors a failed control transfer can return
ControlErrors == {"Timeout", "Pipe"}
\* byte counts the transport can report for a control read
ReadCounts == {0, 1, 32, 64}
\* the bytes the device answers with; the buffer keeps its zeros beyond them
Payloads ==
    {<<>>, <<65, 66>>, <<65, 0, 66>>, <<195, 169>>, <<195>>, <<255, 65>>,
     <<0, 1>>, <<0, 2>>, <<0, 3>>, <<0, 4>>}
\* byte counts the transport can report for a control write of one byte
WriteCounts == {0, 1}
\* the variants of DisplayMode
DisplayModes == {"SameOnBoth", "Stereo", "HalfSBS", "HighRefreshRate", "HighRefreshRateSBS"}
\* u8 arguments
U8 == 0..255
\* overflow checks of the build: on ("debug") or off ("release")
Builds == {"debug", "release"}

ReadResponses ==
    {[kind |-> "err", n |-> 0, payload |-> <<>>, error |-> e] : e \in ControlErrors}
        \cup {[kind |-> "ok", n |-> n, payload |-> p, error |-> ""] :
                 n \in ReadCounts, p \in Payloads}

WriteResponses ==
    {[kind |-> "err", n |-> 0, payload |-> <<>>, error |-> e] : e \in ControlErrors}
        \cup {[kind |-> "ok", n |-> n, payload |-> <<>>, error |-> ""] : n \in WriteCounts}

NoResponse == [kind |-> "none", n |-> 0, payload |-> <<>>, error |-> ""]

\* device_handle.read_control(request_type(In, Vendor, Device), request, value, index, buf, TIMEOUT)
read_control(request, value, index) ==
    [dir |-> "in", request |-> request, value |-> value, index |-> index,
     data |-> <<>>, length |-> ResponseSize]

\* device_handle.write_control(request_type(Out, Vendor, Device), request, value, index, data, TIMEOUT)
write_control(request, value, index, data) ==
    [dir |-> "out", request |-> request, value |-> value, index |-> index,
     data |-> data, length |-> Len(data)]

\* the zeroed buffer after the transport wrote the first `n` bytes of its answer
Buffer(resp) ==
    [i \in 1..ResponseSize |->
        IF i <= resp.n /\ i <= Len(resp.payload) THEN resp.payload[i] ELSE 0]

\* return values: Result::Ok, Result::Err, a plain String, a panic
RetUnit == [kind |-> "Ok", bytes |-> <<>>, mode |-> "", error |-> ""]

RetBytes(bytes) == [kind |-> "Ok", bytes |-> bytes, mode |-> "", error |-> ""]

RetMode(mode) == [kind |-> "Ok", bytes |-> <<>>, mode |-> mode, error |-> ""]

RetErr(error) == [kind |-> "Err", bytes |-> <<>>, mode |-> "", error |-> error]

RetString(bytes) == [kind |-> "String", bytes |-> bytes, mode |-> "", error |-> ""]

\* format!("Unknown ({})", e): the text that names the error e
RetUnknown(error) == [kind |-> "String", bytes |-> <<>>, mode |-> "", error |-> error]

RetPanic == [kind |-> "Panic", bytes |-> <<>>, mode |-> "", error |-> ""]

NoRet == [kind |-> "none", bytes |-> <<>>, mode |-> "", error |-> ""]

NoCtl ==
    [op |-> "none", arg |-> <<>>, transfers |-> <<>>, response |-> NoResponse, ret |-> NoRet]

(***************************************************************************)
(* Text: String::from_utf8, format!("{:02X}") and join.                    *)
(***************************************************************************)
IsContinuation(bytes, i) == i <= Len(bytes) /\ bytes[i] \in 128..191

RECURSIVE utf8_valid_from(_, _)
utf8_valid_from(bytes, i) ==
    IF i > Len(bytes) THEN TRUE
    ELSE IF bytes[i] < 128 THEN utf8_valid_from(bytes, i + 1)
    ELSE IF bytes[i] \in 194..223
         THEN IsContinuation(bytes, i + 1) /\ utf8_valid_from(bytes, i + 2)
    ELSE IF bytes[i] \in 224..239
         THEN /\ IsContinuation(bytes, i + 1)
              /\ bytes[i] = 224 => bytes[i + 1] >= 160
              /\ bytes[i] = 237 => bytes[i + 1] <= 159
              /\ IsContinuation(bytes, i + 2)
              /\ utf8_valid_from(bytes, i + 3)
    ELSE IF bytes[i] \in 240..244
         THEN /\ IsContinuation(bytes, i + 1)
              /\ bytes[i] = 240 => bytes[i + 1] >= 144
              /\ bytes[i] = 244 => bytes[i + 1] <= 143
              /\ IsContinuation(bytes, i + 2)
              /\ IsContinuation(bytes, i + 3)
              /\ utf8_valid_from(bytes, i + 4)
    ELSE FALSE

\* String::from_utf8(bytes).is_ok()
from_utf8_ok(bytes) == utf8_valid_from(bytes, 1)

HexDigit(n) == IF n < 10 THEN 48 + n ELSE 55 + n

\* format!("{:02X}", b), as ASCII
format_02X(b) == <<HexDigit(b \div 16), HexDigit(b % 16)>>

RECURSIVE join(_, _)
join(strings, separator) ==
    IF strings = <<>> THEN <<>>
    ELSE IF Len(strings) = 1 THEN strings[1]
    ELSE strings[1] \o separator \o join(Tail(strings), separator)

\* byte_array.iter().map(|b| format!("{:02X}", b)).collect::<Vec<String>>().join(", ")
hex_dump(bytes) == join([i \in 1..Len(bytes) |-> format_02X(bytes[i])], <<44, 32>>)

\* result.iter().copied().take_while(|c| *c != 0).collect()
RECURSIVE take_while_nonzero(_)
take_while_nonzero(bytes) ==
    IF bytes = <<>> \/ Head(bytes) = 0 THEN <<>>
    ELSE <<Head(bytes)>> \o take_while_nonzero(Tail(bytes))

\* mutant: a failed read is handed on to the caller instead of being turned into text
convert_byte_array_propagating(byte_array) ==
    IF byte_array.kind = "Ok"
    THEN IF from_utf8_ok(byte_array.bytes)
         THEN RetString(byte_array.bytes)
         ELSE RetString(hex_dump(byte_array.bytes))
    ELSE byte_array

convert_byte_array(byte_array) ==
    IF byte_array.kind = "Ok"
    THEN IF from_utf8_ok(byte_array.bytes)
         THEN RetString(byte_array.bytes)
         ELSE RetString(hex_dump(byte_array.bytes))
    ELSE RetUnknown(byte_array.error)

convert_data_response(byte_array) ==
    IF byte_array.kind = "Ok"
    THEN RetString(hex_dump(byte_array.bytes))
    ELSE RetUnknown(byte_array.error)

(***************************************************************************)
(* The control operations: each maps its arguments and the transport's     *)
(* answer to the transfers it issued and the value it returns.             *)
(***************************************************************************)
Outcome(transfers, ret) == [transfers |-> transfers, ret |-> ret]

\* an operation built on another keeps its transfers and converts its value
Converted(outcome, ret) == [transfers |-> outcome.transfers, ret |-> ret]

read_value(request, index, value, resp) ==
    Outcome(<<read_control(request, value, index)>>,
            IF resp.kind = "err" THEN RetErr(resp.error)
            ELSE IF resp.n # ResponseSize THEN RetErr("Protocol error")
            ELSE RetBytes(Buffer(resp)))

\* mutant: index and value are handed to the transport in the order they are received
write_value_unswapped(request, index, value, data, resp) ==
    Outcome(<<write_control(request, index, value, data)>>,
            IF resp.kind = "err" THEN RetErr(resp.error)
            ELSE IF Len(data) # resp.n THEN RetErr("WriteFailed")
            ELSE RetUnit)

write_value(request, index, value, data, resp) ==
    Outcome(<<write_control(request, value, index, data)>>,
            IF resp.kind = "err" THEN RetErr(resp.error)
            ELSE IF Len(data) # resp.n THEN RetErr("WriteFailed")
            ELSE RetUnit)

serial(resp) ==
    Outcome(<<read_control(129, 256, 0)>>,
            IF resp.kind = "err" THEN RetErr(resp.error)
            ELSE IF from_utf8_ok(take_while_nonzero(Buffer(resp)))
                 THEN RetBytes(take_while_nonzero(Buffer(resp)))
                 ELSE RetErr("Invalid serial string"))

get_display_mode(resp) ==
    Outcome(<<read_control(129, 0, 1)>>,
            IF resp.kind = "err" THEN RetErr(resp.error)
            ELSE CASE Buffer(resp)[2] = 0 -> RetMode("SameOnBoth")
                   [] Buffer(resp)[2] = 1 -> RetMode("Stereo")
                   [] Buffer(resp)[2] = 2 -> RetMode("HalfSBS")
                   [] Buffer(resp)[2] = 4 -> RetMode("HighRefreshRateSBS")
                   [] OTHER -> RetMode("HighRefreshRate"))

\* the outbound code of a display mode, -1 when it has none
display_mode_code(display_mode) ==
    CASE display_mode = "SameOnBoth" -> 0
      [] display_mode = "Stereo" -> 1
      [] display_mode = "HighRefreshRate" -> 3
      [] display_mode = "HighRefreshRateSBS" -> 4
      [] OTHER -> -1

set_display_mode(display_mode, resp) ==
    IF display_mode_code(display_mode) < 0
    THEN Outcome(<<>>, RetErr("Display mode not supported"))
    ELSE Outcome(<<write_control(1, display_mode_code(display_mode), 1, <<0>>)>>,
                 IF resp.kind = "err" THEN RetErr(resp.error) ELSE RetUnit)

hw_version(resp) ==
    Converted(read_value(129, 0, 2048, resp), convert_byte_array(read_value(129, 0, 2048, resp).ret))

pcba_version(resp) ==
    Converted(read_value(129, 0, 512, resp), convert_byte_array(read_value(129, 0, 512, resp).ret))

optical_id(resp) ==
    Converted(read_value(129, 0, 1792, resp), convert_byte_array(read_value(129, 0, 1792, resp).ret))

type_id(resp) ==
    Converted(read_value(129, 0, 768, resp), convert_byte_array(read_value(129, 0, 768, resp).ret))

serial_no(resp) ==
    Converted(read_value(129, 0, 256, resp), convert_byte_array(read_value(129, 0, 256, resp).ret))

fw_version(resp) ==
    Converted(read_value(129, 0, 0, resp), convert_byte_array(read_value(129, 0, 0, resp).ret))

seed(resp) ==
    Converted(read_value(129, 0, 2560, resp), convert_byte_array(read_value(129, 0, 2560, resp).ret))

get_raw_display_mode(resp) ==
    Converted(read_value(129, 1, 0, resp), convert_data_response(read_value(129, 1, 0, resp).ret))

set_raw_display_mode(mode1, mode2, resp) == write_value(1, 1, mode1, <<mode2>>, resp)

get_volume(resp) ==
    Converted(read_value(129, 10, 0, resp), convert_data_response(read_value(129, 10, 0, resp).ret))

get_brightness(resp) ==
    Converted(read_value(129, 2, 0, resp), convert_data_response(read_value(129, 2, 0, resp).ret))

Min(a, b) == IF a < b THEN a ELSE b

Max(a, b) == IF a > b THEN a ELSE b

\* mutant: the volume is not clamped
clamp_volume_missing(volume) == volume

\* std::cmp::min(std::cmp::max(volume, 0), 10)
clamp_volume(volume) == Min(Max(volume, 0), 10)

\* `volume * 10` on u8: above 255 the build decides, a panic or the wrapped product
set_volume(volume, resp, build) ==
    IF clamp_volume(volume) * 10 > 255 /\ build = "debug"
    THEN Outcome(<<>>, RetPanic)
    ELSE write_value(1, 10, (clamp_volume(volume) * 10) % 256, <<0>>, resp)

\* mutant: the lower limit of the clamp is missing
clamp_brightness_no_floor(brightness) == Min(brightness, 6)

\* std::cmp::min(std::cmp::max(brightness, 1), 6)
clamp_brightness(brightness) == Min(Max(brightness, 1), 6)

\* the match that maps the clamped level to the transmitted value
brightness_table(level) ==
    CASE level = 1 -> 10
      [] level = 2 -> 30
      [] level = 3 -> 45
      [] level = 4 -> 60
      [] level = 5 -> 80
      [] OTHER -> 100

set_brightness(brightness, resp) ==
    write_value(2, 2, brightness_table(clamp_brightness(brightness)), <<0>>, resp)

(***************************************************************************)
(* Observers.                                                              *)
(***************************************************************************)
CarriesKeys(packet) == packet.tag \in {TagMisc, TagCombined}

\* the events `post` holds beyond those of `pre`
Pushed(pre, post) ==
    SubSeq(post.pending_events, Len(pre.pending_events) + 1, Len(post.pending_events))

ProximityEvents(events) ==
    SelectSeq(events, LAMBDA e : e.type \in {"ProximityFar", "ProximityNear"})

ObserveRecv(old, packet, events) ==
    LET prox == ProximityEvents(events)
    IN  [keys |-> IF CarriesKeys(packet) THEN packet.keys_pressed ELSE old.keys,
         prox |-> IF CarriesKeys(packet) THEN packet.proxy_sensor ELSE old.prox,
         prox_event |-> IF prox = <<>> THEN old.prox_event ELSE prox[Len(prox)].type]

Assign(self) ==
    /\ last_accelerometer' = self.last_accelerometer
    /\ last_gyroscope' = self.last_gyroscope
    /\ previous_key_states' = self.previous_key_states
    /\ proxy_sensor_was_far' = self.proxy_sensor_was_far
    /\ pending_events' = self.pending_events

(***************************************************************************)
(* Initial states.                                                         *)
(***************************************************************************)
Init0(track) ==
    /\ last_accelerometer = new_common.last_accelerometer
    /\ last_gyroscope = new_common.last_gyroscope
    /\ previous_key_states = new_common.previous_key_states
    /\ proxy_sensor_was_far = new_common.proxy_sensor_was_far
    /\ pending_events = new_common.pending_events
    /\ pc = "idle"
    /\ reads = 0
    /\ result = NoResult
    /\ transport_error = ""
    /\ last = [packet |-> NoPacket, pre |-> new_common, recv_pre |-> [keys |-> 0, prox |-> 0, prox_event |-> "none"], events |-> <<>>]
    /\ recv = [keys |-> 0, prox |-> 0, prox_event |-> "none"]
    /\ tracking = track
    /\ packets = <<>>
    /\ produced = <<>>
    /\ delivered = <<>>
    /\ ctl = NoCtl

Init == Init0(FALSE)

InitH == Init0(TRUE)

(***************************************************************************)
(* read_event, one action per step between two blocking points.            *)
(***************************************************************************)
\* the caller enters read_event
Call ==
    /\ pc = "idle"
    /\ pc' = "loop"
    /\ reads' = 0
    /\ result' = NoResult
    /\ transport_error' = ""
    /\ UNCHANGED <<last_accelerometer, last_gyroscope, previous_key_states,
                   proxy_sensor_was_far, pending_events, last, recv, tracking,
                   packets, produced, delivered, ctl>>

\* one iteration of the loop whose read_interrupt succeeds with `packet`
ReadPacket(packet) ==
    /\ pc = "loop"
    /\ while_condition(Self)
    /\ tracking => Len(packets) < MaxPackets
    /\ \E post \in {process_packet(Self, packet)} : \E events \in {Pushed(Self, post)} :
           /\ Assign(post)
           /\ last' = [packet |-> packet, pre |-> Self, recv_pre |-> recv, events |-> events]
           /\ recv' = ObserveRecv(recv, packet, events)
           /\ packets' = IF tracking THEN Append(packets, packet) ELSE packets
           /\ produced' = IF tracking THEN produced \o events ELSE produced
    /\ reads' = IF reads < MaxReads THEN reads + 1 ELSE reads
    /\ UNCHANGED <<pc, result, transport_error, tracking, delivered, ctl>>

\* one iteration of the loop whose read_interrupt fails: `?` returns the error
ReadFail(error) ==
    /\ pc = "loop"
    /\ while_condition(Self)
    /\ pc' = "idle"
    /\ result' = Err(error)
    /\ transport_error' = error
    /\ reads' = IF reads < MaxReads THEN reads + 1 ELSE reads
    /\ UNCHANGED <<last_accelerometer, last_gyroscope, previous_key_states,
                   proxy_sensor_was_far, pending_events, last, recv, tracking,
                   packets, produced, delivered, ctl>>

\* the loop is left: Ok(self.pending_events.pop_front().unwrap())
Return ==
    /\ pc = "loop"
    /\ ~while_condition(Self)
    /\ LET popped == pop_front(pending_events)
       IN  /\ pending_events' = popped.rest
           /\ result' = IF popped.value.some THEN Ok(popped.value.vec) ELSE Panic
           /\ delivered' = IF tracking /\ popped.value.some
                           THEN Append(delivered, popped.value.vec)
                           ELSE delivered
    /\ pc' = "idle"
    /\ UNCHANGED <<last_accelerometer, last_gyroscope, previous_key_states,
                   proxy_sensor_was_far, reads, transport_error, last, recv, tracking,
                   packets, produced, ctl>>

Next ==
    \/ Call
    \/ \E packet \in Packets : ReadPacket(packet)
    \/ \E error \in TransportErrors : ReadFail(error)
    \/ Return

Spec == Init /\ [][Next]_vars

SpecH == InitH /\ [][Next]_vars

\* read_event runs on: once its loop condition is false it returns
SpecLive == Init /\ [][Next]_vars /\ WF_vars(Return)

(***************************************************************************)
(* The control operations as actions: one call each, made while no         *)
(* read_event is in progress, with the transport's answer as input.        *)
(***************************************************************************)
\* no read_event and no control operation is in progress
CanCall == pc = "idle" /\ ctl.op = "none"

\* the record of one completed operation; the answer is kept when a transfer was issued
Performed(op, arg, resp, outcome) ==
    [op |-> op, arg |-> arg, transfers |-> outcome.transfers,
     response |-> IF outcome.transfers = <<>> THEN NoResponse ELSE resp,
     ret |-> outcome.ret]

\* the (request, index, value) triples read_value is called with directly
ReadValueArgs == {<<129, 0, 2048>>, <<130, 2, 0>>}

ReadValue ==
    /\ CanCall
    /\ \E a \in ReadValueArgs, resp \in ReadResponses :
           ctl' = Performed("read_value", a, resp, read_value(a[1], a[2], a[3], resp))
    /\ UNCHANGED event_vars

\* the (request, index, value, data byte) tuples write_value is called with directly
WriteValueArgs == {<<1, 10, 50, 0>>, <<2, 2, 30, 0>>}

WriteValue ==
    /\ CanCall
    /\ \E a \in WriteValueArgs, resp \in WriteResponses :
           ctl' = Performed("write_value", a, resp, write_value(a[1], a[2], a[3], <<a[4]>>, resp))
    /\ UNCHANGED event_vars

Serial ==
    /\ CanCall
    /\ \E resp \in ReadResponses :
           ctl' = Performed("serial", <<>>, resp, serial(resp))
    /\ UNCHANGED event_vars

GetDisplayMode ==
    /\ CanCall
    /\ \E resp \in ReadResponses :
           ctl' = Performed("get_display_mode", <<>>, resp, get_display_mode(resp))
    /\ UNCHANGED event_vars

SetDisplayMode ==
    /\ CanCall
    /\ \E mode \in DisplayModes, resp \in WriteResponses :
           ctl' = Performed("set_display_mode", <<display_mode_code(mode)>>, resp, set_display_mode(mode, resp))
    /\ UNCHANGED event_vars

HwVersion ==
    /\ CanCall
    /\ \E resp \in ReadResponses :
           ctl' = Performed("hw_version", <<>>, resp, hw_version(resp))
    /\ UNCHANGED event_vars

PcbaVersion ==
    /\ CanCall
    /\ \E resp \in ReadResponses :
           ctl' = Performed("pcba_version", <<>>, resp, pcba_version(resp))
    /\ UNCHANGED event_vars

OpticalId ==
    /\ CanCall
    /\ \E resp \in ReadResponses :
           ctl' = Performed("optical_id", <<>>, resp, optical_id(resp))
    /\ UNCHANGED event_vars

TypeId ==
    /\ CanCall
    /\ \E resp \in ReadResponses :
           ctl' = Performed("type_id", <<>>, resp, type_id(resp))
    /\ UNCHANGED event_vars

SerialNo ==
    /\ CanCall
    /\ \E resp \in ReadResponses :
           ctl' = Performed("serial_no", <<>>, resp, serial_no(resp))
    /\ UNCHANGED event_vars

FwVersion ==
    /\ CanCall
    /\ \E resp \in ReadResponses :
           ctl' = Performed("fw_version", <<>>, resp, fw_version(resp))
    /\ UNCHANGED event_vars

Seed ==
    /\ CanCall
    /\ \E resp \in ReadResponses :
           ctl' = Performed("seed", <<>>, resp, seed(resp))
    /\ UNCHANGED event_vars

GetRawDisplayMode ==
    /\ CanCall
    /\ \E resp \in ReadResponses :
           ctl' = Performed("get_raw_display_mode", <<>>, resp, get_raw_display_mode(resp))
    /\ UNCHANGED event_vars

\* the mode bytes set_raw_display_mode is called with
RawModes == 0..5

SetRawDisplayMode ==
    /\ CanCall
    /\ \E mode1 \in RawModes, mode2 \in {0, 1}, resp \in WriteResponses :
           ctl' = Performed("set_raw_display_mode", <<mode1, mode2>>, resp, set_raw_display_mode(mode1, mode2, resp))
    /\ UNCHANGED event_vars

GetVolume ==
    /\ CanCall
    /\ \E resp \in ReadResponses :
           ctl' = Performed("get_volume", <<>>, resp, get_volume(resp))
    /\ UNCHANGED event_vars

SetVolume ==
    /\ CanCall
    /\ \E volume \in U8, resp \in WriteResponses, build \in Builds :
           ctl' = Performed("set_volume", <<volume>>, resp, set_volume(volume, resp, build))
    /\ UNCHANGED event_vars

GetBrightness ==
    /\ CanCall
    /\ \E resp \in ReadResponses :
           ctl' = Performed("get_brightness", <<>>, resp, get_brightness(resp))
    /\ UNCHANGED event_vars

SetBrightness ==
    /\ CanCall
    /\ \E brightness \in U8, resp \in WriteResponses :
           ctl' = Performed("set_brightness", <<brightness>>, resp, set_brightness(brightness, resp))
    /\ UNCHANGED event_vars

\* the caller takes the returned value
CtlReturn ==
    /\ ctl.op # "none"
    /\ ctl' = NoCtl
    /\ UNCHANGED event_vars

NextCtl ==
    \/ ReadValue
    \/ WriteValue
    \/ Serial
    \/ GetDisplayMode
    \/ SetDisplayMode
    \/ HwVersion
    \/ PcbaVersion
    \/ OpticalId
    \/ TypeId
    \/ SerialNo
    \/ FwVersion
    \/ Seed
    \/ GetRawDisplayMode
    \/ SetRawDisplayMode
    \/ GetVolume
    \/ SetVolume
    \/ GetBrightness
    \/ SetBrightness
    \/ CtlReturn

SpecCtl == Init /\ [][NextCtl]_vars

(***************************************************************************)
(* Vocabulary of the properties.                                           *)
(***************************************************************************)
\* a packet has been processed
Stepped == last.packet # NoPacket

EventTypes == {"KeyPress", "ProximityNear", "ProximityFar", "AccGyro", "Magnetometer"}

OfType(events, type) == SelectSeq(events, LAMBDA e : e.type = type)

KeyPressesOf(events, bit) == SelectSeq(events, LAMBDA e : e.type = "KeyPress" /\ e.bit = bit)

\* bit i goes from 0 to 1 between two consecutive bitmasks
Rising(before, after, i) ==
    /\ (after \div (2 ^ i)) % 2 = 1
    /\ (before \div (2 ^ i)) % 2 = 0

IsSplit(packet, kind) == packet.tag = TagSensor /\ packet.sensor_type = kind

\* the pending sample a split packet of a pairing kind brings
SampleOf(packet) == Some(packet.vector, packet.timestamp)

\* the fusion state proper: everything but the event queue
FusionOf(self) ==
    <<self.last_accelerometer, self.last_gyroscope, self.previous_key_states,
      self.proxy_sensor_was_far>>

(***************************************************************************)
(* C1. The events returned by the successful read_event calls, followed by *)
(* the events still queued, are exactly the events the packets pushed, in  *)
(* packet order: nothing is dropped, delivered twice or reordered.         *)
(* Checked under SpecH, which records the history.                         *)
(***************************************************************************)
C1_DeliveredInOrder == delivered \o pending_events = produced

C1_Witness ==
    /\ Len(packets) >= 2
    /\ Len(produced) >= 4
    /\ delivered = produced
    /\ Len(last.events) >= 2
    /\ Len(last.events) < Len(produced)

(***************************************************************************)
(* C2. A read_event call ends either with exactly one event, taken from    *)
(* the events of the last packet read, or with the error of the failed     *)
(* interrupt read; a call that has read a packet yielding no event has not *)
(* returned an event, it is still in its loop or has failed.               *)
(***************************************************************************)
C2_OneEventPerCall ==
    /\ result.kind \in {"none", "ok", "err"}
    /\ result.kind = "ok" =>
        /\ pc = "idle"
        /\ result.event.type \in EventTypes
        /\ \E i \in 1..Len(last.events) : last.events[i] = result.event
    /\ result.kind = "err" =>
        /\ pc = "idle"
        /\ result.error = transport_error
        /\ transport_error \in TransportErrors
    /\ (reads > 0 /\ Stepped /\ last.events = <<>> /\ transport_error = "") => pc = "loop"

C2_Witness ==
    /\ pc = "idle"
    /\ result.kind = "ok"
    /\ reads >= 2

(***************************************************************************)
(* C3. Of the packets that carry a key bitmask (tags 2 and 17), each pushes *)
(* exactly one KeyPress(i) for every bit i that is 0 in the bitmask        *)
(* received before and 1 in its own, and none for any other bit; other     *)
(* packets push no KeyPress; the stored bitmask is the last one received.  *)
(***************************************************************************)
C3_KeyPressOnRisingEdge ==
    /\ previous_key_states = recv.keys
    /\ Stepped =>
        /\ \A i \in 1..Len(last.events) :
              last.events[i].type = "KeyPress" => last.events[i].bit \in 0..(KeyBits - 1)
        /\ \A bit \in 0..(KeyBits - 1) :
              Len(KeyPressesOf(last.events, bit)) =
                 IF /\ CarriesKeys(last.packet)
                    /\ Rising(last.recv_pre.keys, last.packet.keys_pressed, bit)
                 THEN 1 ELSE 0

C3_Witness ==
    /\ Stepped
    /\ CarriesKeys(last.packet)
    /\ last.recv_pre.keys = 1
    /\ last.packet.keys_pressed = 255
    /\ Len(OfType(last.events, "KeyPress")) = 7
    /\ KeyPressesOf(last.events, 0) = <<>>

(***************************************************************************)
(* C4. A packet that carries a proximity value pushes ProximityFar exactly *)
(* when the value received before was zero (or none was received yet) and  *)
(* its own is non-zero, ProximityNear exactly when the one before was      *)
(* non-zero and its own is zero, and nothing otherwise; so each proximity  *)
(* event differs from the one pushed before it, and the first is Far.      *)
(***************************************************************************)
C4_ProximityAlternates ==
    Stepped =>
        /\ ProximityEvents(last.events) =
              IF ~CarriesKeys(last.packet) THEN <<>>
              ELSE IF last.recv_pre.prox = 0 /\ last.packet.proxy_sensor # 0
                   THEN <<ProximityFar>>
              ELSE IF last.recv_pre.prox # 0 /\ last.packet.proxy_sensor = 0
                   THEN <<ProximityNear>>
              ELSE <<>>
        /\ \A i \in 1..Len(ProximityEvents(last.events)) :
              /\ ProximityEvents(last.events)[i].type # last.recv_pre.prox_event
              /\ last.recv_pre.prox_event = "none" =>
                    ProximityEvents(last.events)[i] = ProximityFar

C4_Witness ==
    /\ Stepped
    /\ last.recv_pre.prox_event = "ProximityFar"
    /\ last.recv_pre.prox # 0
    /\ ProximityEvents(last.events) = <<ProximityNear>>

(***************************************************************************)
(* C5. A split accelerometer (gyroscope) sample at timestamp T pushes an   *)
(* AccGyro event exactly when the pending gyroscope (accelerometer) sample *)
(* has timestamp T; the event carries both vectors and T, it is the only   *)
(* event pushed, and both pending slots are empty afterwards.              *)
(***************************************************************************)
C5_PairOnEqualTimestamp ==
    /\ (Stepped /\ IsSplit(last.packet, SensorAccelerometer)) =>
          IF last.pre.last_gyroscope.some
             /\ last.pre.last_gyroscope.ts = last.packet.timestamp
          THEN /\ last.events = <<AccGyro(last.packet.vector, last.pre.last_gyroscope.vec,
                                          last.packet.timestamp)>>
               /\ last_accelerometer = None
               /\ last_gyroscope = None
          ELSE OfType(last.events, "AccGyro") = <<>>
    /\ (Stepped /\ IsSplit(last.packet, SensorGyroscope)) =>
          IF last.pre.last_accelerometer.some
             /\ last.pre.last_accelerometer.ts = last.packet.timestamp
          THEN /\ last.events = <<AccGyro(last.pre.last_accelerometer.vec, last.packet.vector,
                                          last.packet.timestamp)>>
               /\ last_accelerometer = None
               /\ last_gyroscope = None
          ELSE OfType(last.events, "AccGyro") = <<>>
    /\ (Stepped /\ last.packet.tag = TagSensor
          /\ ~last.pre.last_accelerometer.some /\ ~last.pre.last_gyroscope.some) =>
          OfType(last.events, "AccGyro") = <<>>

C5_Witness ==
    /\ Stepped
    /\ IsSplit(last.packet, SensorGyroscope)
    /\ last.pre.last_accelerometer.some
    /\ last.pre.last_accelerometer.ts = last.packet.timestamp
    /\ last.pre.last_accelerometer.vec # last.packet.vector
    /\ Len(last.events) = 1
    /\ last_accelerometer = None
    /\ last_gyroscope = None

(***************************************************************************)
(* C6. A split accelerometer (gyroscope) sample whose timestamp differs    *)
(* from the pending sample of the other kind pushes no AccGyro, replaces   *)
(* the pending sample of its own kind and leaves the other slot alone; a   *)
(* pending sample changes only when a sample of its kind arrives or when   *)
(* it is paired with a same-timestamp sample of the other kind.            *)
(***************************************************************************)
C6_LastSampleWins ==
    Stepped =>
        /\ (IsSplit(last.packet, SensorAccelerometer)
              /\ ~(last.pre.last_gyroscope.some
                     /\ last.pre.last_gyroscope.ts = last.packet.timestamp)) =>
              /\ OfType(last.events, "AccGyro") = <<>>
              /\ last_accelerometer = SampleOf(last.packet)
              /\ last_gyroscope = last.pre.last_gyroscope
        /\ (IsSplit(last.packet, SensorGyroscope)
              /\ ~(last.pre.last_accelerometer.some
                     /\ last.pre.last_accelerometer.ts = last.packet.timestamp)) =>
              /\ OfType(last.events, "AccGyro") = <<>>
              /\ last_gyroscope = SampleOf(last.packet)
              /\ last_accelerometer = last.pre.last_accelerometer
        /\ last_accelerometer # last.pre.last_accelerometer =>
              \/ IsSplit(last.packet, SensorAccelerometer)
              \/ /\ IsSplit(last.packet, SensorGyroscope)
                 /\ last.pre.last_accelerometer.ts = last.packet.timestamp
                 /\ last_accelerometer = None
        /\ last_gyroscope # last.pre.last_gyroscope =>
              \/ IsSplit(last.packet, SensorGyroscope)
              \/ /\ IsSplit(last.packet, SensorAccelerometer)
                 /\ last.pre.last_gyroscope.ts = last.packet.timestamp
                 /\ last_gyroscope = None

C6_Witness ==
    /\ Stepped
    /\ IsSplit(last.packet, SensorAccelerometer)
    /\ last.pre.last_accelerometer.some
    /\ last.pre.last_accelerometer # SampleOf(last.packet)
    /\ last.pre.last_gyroscope.some
    /\ last.pre.last_gyroscope.ts = last.pre.last_accelerometer.ts + 1
    /\ last.events = <<>>
    /\ last_accelerometer = SampleOf(last.packet)
    /\ last_gyroscope = last.pre.last_gyroscope

(***************************************************************************)
(* C7. A combined frame (tag 17) pushes exactly one AccGyro event and      *)
(* exactly one Magnetometer event, built from the frame's own fields,      *)
(* whatever the pending accelerometer and gyroscope samples are, and       *)
(* leaves both pending slots as they were.                                 *)
(***************************************************************************)
C7_CombinedFrame ==
    (Stepped /\ last.packet.tag = TagCombined) =>
        /\ OfType(last.events, "AccGyro") =
              <<AccGyro(last.packet.accelerometer, last.packet.gyroscope,
                        last.packet.timestamp \div CombinedTimestampDivisor)>>
        /\ OfType(last.events, "Magnetometer") =
              <<Magnetometer(last.packet.magnetometer,
                             last.packet.timestamp \div CombinedTimestampDivisor)>>
        /\ last_accelerometer = last.pre.last_accelerometer
        /\ last_gyroscope = last.pre.last_gyroscope

C7_Witness ==
    /\ Stepped
    /\ last.packet.tag = TagCombined
    /\ last.pre.last_accelerometer.some
    /\ last.pre.last_gyroscope.some
    /\ last.pre.last_accelerometer.ts = last.packet.timestamp \div CombinedTimestampDivisor
    /\ last_accelerometer.some
    /\ last_gyroscope.some

(***************************************************************************)
(* C8. A packet whose tag is none of 2, 4, 17, and a tag-4 packet whose    *)
(* sensor kind is none of 1, 2, 3, pushes no event and leaves the pending  *)
(* accelerometer, the pending gyroscope, the previous key bitmask, the     *)
(* previous proximity state and the event queue as they were.              *)
(***************************************************************************)
C8_UnrecognizedIgnored ==
    (/\ Stepped
     /\ \/ last.packet.tag \notin {TagMisc, TagSensor, TagCombined}
        \/ /\ last.packet.tag = TagSensor
           /\ last.packet.sensor_type \notin
                 {SensorAccelerometer, SensorGyroscope, SensorMagnetometer}) =>
        /\ last.events = <<>>
        /\ FusionOf(Self) = FusionOf(last.pre)
        /\ pending_events = last.pre.pending_events

C8_Witness ==
    /\ Stepped
    /\ last.packet.tag \in OtherTags
    /\ last.packet.keys_pressed # last.pre.previous_key_states
    /\ last.pre.last_accelerometer.some
    /\ last.pre.last_gyroscope.some
    /\ last.pre.previous_key_states # 0
    /\ ~last.pre.proxy_sensor_was_far
    /\ last.packet.proxy_sensor # 0

(***************************************************************************)
(* C9, as stated: one packet pushes at most two events.                    *)
(***************************************************************************)
C9_AtMostTwoEvents == Stepped => Len(last.events) <= 2

(***************************************************************************)
(* C9, amended. One packet pushes at most eleven events: a key / proximity *)
(* packet at most 8 KeyPress and one proximity event, a split sensor       *)
(* packet at most one event, a combined frame its AccGyro and Magnetometer *)
(* events and at most 8 KeyPress and one proximity event, any other packet *)
(* none.                                                                   *)
(***************************************************************************)
C9_EventsPerPacket ==
    Stepped =>
        /\ Len(OfType(last.events, "KeyPress")) <= KeyBits
        /\ Len(ProximityEvents(last.events)) <= 1
        /\ Len(last.events) <=
              CASE last.packet.tag = TagMisc -> KeyBits + 1
                [] last.packet.tag = TagSensor -> 1
                [] last.packet.tag = TagCombined -> KeyBits + 3
                [] OTHER -> 0
        /\ last.packet.tag = TagCombined => Len(last.events) >= 2

C9_Witness ==
    /\ Stepped
    /\ last.packet.tag = TagCombined
    /\ Len(last.events) = KeyBits + 3

(***************************************************************************)
(* C10. A split magnetometer sample (tag 4, kind 3) pushes exactly one     *)
(* event, the Magnetometer event with the sample's vector and timestamp,   *)
(* whatever the pending accelerometer and gyroscope samples are, and       *)
(* leaves both pending slots as they were.                                 *)
(***************************************************************************)
C10_MagnetometerImmediate ==
    (Stepped /\ IsSplit(last.packet, SensorMagnetometer)) =>
        /\ last.events = <<Magnetometer(last.packet.vector, last.packet.timestamp)>>
        /\ last_accelerometer = last.pre.last_accelerometer
        /\ last_gyroscope = last.pre.last_gyroscope

C10_Witness ==
    /\ Stepped
    /\ IsSplit(last.packet, SensorMagnetometer)
    /\ last.pre.last_accelerometer.some
    /\ last.pre.last_gyroscope.some
    /\ last.packet.timestamp = last.pre.last_accelerometer.ts
    /\ last.events # <<>>
    /\ last_accelerometer.some
    /\ last_gyroscope.some

(***************************************************************************)
(* C19. The events one key-carrying packet pushes are in a fixed order:    *)
(* for a combined frame the AccGyro event, then the Magnetometer event;    *)
(* then the KeyPress events in ascending bit index; then the proximity     *)
(* event, if any.                                                          *)
(***************************************************************************)
OrderRank(event) ==
    CASE event.type = "AccGyro" -> 0
      [] event.type = "Magnetometer" -> 1
      [] event.type = "KeyPress" -> 2
      [] OTHER -> 3

C19_OrderWithinPacket ==
    (Stepped /\ CarriesKeys(last.packet)) =>
        /\ \A i, j \in 1..Len(last.events) :
              i < j =>
                 \/ OrderRank(last.events[i]) < OrderRank(last.events[j])
                 \/ /\ last.events[i].type = "KeyPress"
                    /\ last.events[j].type = "KeyPress"
                    /\ last.events[i].bit < last.events[j].bit
        /\ last.packet.tag = TagCombined =>
              /\ Len(last.events) >= 2
              /\ last.events[1].type = "AccGyro"
              /\ last.events[2].type = "Magnetometer"

C19_Witness ==
    /\ Stepped
    /\ last.packet.tag = TagCombined
    /\ Len(last.events) = KeyBits + 2
    /\ last.events[3] = KeyPress(1)
    /\ last.events[KeyBits + 1] = KeyPress(KeyBits - 1)
    /\ last.events[KeyBits + 2] = ProximityNear

(***************************************************************************)
(* C20. A read_event call whose queue holds an event returns it in its     *)
(* next step, without a further read, and does return (SpecLive: the call  *)
(* keeps running); a failed read ends the call at once; a call ends in no  *)
(* other way, so after a packet that pushed nothing it is still in its     *)
(* loop, where a further read is always possible, however many were done.  *)
(***************************************************************************)
C20_ReturnsAtFirstEvent ==
    /\ [][(pc = "loop" /\ pending_events # <<>>) =>
             /\ pc' = "idle"
             /\ result' = Ok(Head(pending_events))
             /\ reads' = reads
             /\ last' = last]_vars
    /\ [][(pc = "loop" /\ pc' = "idle") =>
             \/ pending_events # <<>> /\ result'.kind = "ok"
             \/ /\ pending_events = <<>>
                /\ transport_error' \in TransportErrors
                /\ result' = Err(transport_error')]_vars
    /\ [][(pc = "loop" /\ pending_events = <<>> /\ last' # last /\ pending_events' = <<>>) =>
             pc' = "loop"]_vars
    /\ []((pc = "loop" /\ pending_events = <<>>) =>
             \A packet \in OtherPackets : ENABLED ReadPacket(packet))
    /\ ((pc = "loop" /\ pending_events # <<>>) ~> (pc = "idle" /\ result.kind = "ok"))

C20_Witness ==
    /\ pc = "idle"
    /\ result.kind = "ok"
    /\ reads >= MaxReads
    /\ pending_events # <<>>
    /\ last.events = <<result.event>> \o pending_events

(***************************************************************************)
(* Control transfers.                                                      *)
(***************************************************************************)
\* a completed operation that issued a control read the transport answered
AnsweredRead ==
    /\ ctl.op # "none"
    /\ ctl.transfers # <<>>
    /\ ctl.transfers[1].dir = "in"
    /\ ctl.response.kind = "ok"

\* a completed operation that issued a control write the transport answered
AnsweredWrite ==
    /\ ctl.op # "none"
    /\ ctl.transfers # <<>>
    /\ ctl.transfers[1].dir = "out"
    /\ ctl.response.kind = "ok"

\* the returned value reports the protocol error and carries nothing decoded
ReportsProtocolError(ret) ==
    /\ ret.kind \in {"Err", "String"}
    /\ ret.error = "Protocol error"
    /\ ret.bytes = <<>>
    /\ ret.mode = ""

IdentityGetters ==
    {"hw_version", "pcba_version", "optical_id", "type_id", "serial_no", "fw_version", "seed"}

\* C11: every control read, those of get_display_mode and serial included, reports a
\* protocol error when the transport returns a byte count other than 64, and returns
\* no value decoded from the short response.
C11_ShortReadIsProtocolError ==
    (AnsweredRead /\ ctl.response.n # 64) => ReportsProtocolError(ctl.ret)

\* C12: every control write, that of set_display_mode included, fails with the
\* write-incomplete error when fewer bytes were written than the payload holds, and
\* succeeds only when the whole payload was written.
C12_ShortWriteFails ==
    AnsweredWrite =>
        /\ ctl.response.n < Len(ctl.transfers[1].data) => ctl.ret = RetErr("WriteFailed")
        /\ ctl.ret.kind = "Ok" => ctl.response.n = Len(ctl.transfers[1].data)

\* C13: for every 8-bit v, set_volume(v) issues exactly one control write with request
\* 0x01, index 0x0a, payload [0x00] and value min(v, 10) * 10, a multiple of ten up to
\* 100, and the 8-bit product never overflows (no panic, no wrapped value).
C13_SetVolumeTransfer ==
    ctl.op = "set_volume" =>
        /\ ctl.ret.kind # "Panic"
        /\ ctl.transfers =
               <<[dir |-> "out", request |-> 1,
                  value |-> (IF ctl.arg[1] < 10 THEN ctl.arg[1] ELSE 10) * 10,
                  index |-> 10, data |-> <<0>>, length |-> 1]>>
        /\ ctl.transfers[1].value \in {10 * k : k \in 0..10}

C13_Witness ==
    /\ ctl.op = "set_volume"
    /\ ctl.arg = <<15>>
    /\ ctl.transfers # <<>>
    /\ ctl.transfers[1].value = 100
    /\ ctl.ret = RetUnit

\* C14: for every 8-bit b, set_brightness(b) issues exactly one control write with
\* request 0x02, index 0x02, payload [0x00] and the table value of b clamped to 1..6
\* (1->10, 2->30, 3->45, 4->60, 5->80, 6->100); 0 transmits 10 and 9 transmits 100.
C14_SetBrightnessTransfer ==
    ctl.op = "set_brightness" =>
        LET b == ctl.arg[1]
            level == IF b < 1 THEN 1 ELSE IF b > 6 THEN 6 ELSE b
        IN  /\ ctl.transfers =
                   <<[dir |-> "out", request |-> 2,
                      value |-> <<10, 30, 45, 60, 80, 100>>[level],
                      index |-> 2, data |-> <<0>>, length |-> 1]>>
            /\ b = 0 => ctl.transfers[1].value = 10
            /\ b = 9 => ctl.transfers[1].value = 100

C14_Witness ==
    /\ ctl.op = "set_brightness"
    /\ ctl.arg = <<0>>
    /\ ctl.transfers # <<>>
    /\ ctl.transfers[1].value = 10
    /\ ctl.ret = RetUnit

\* C15: the brightness getter issues its control read with request 0x82 and index 0x02,
\* not the request 0x81 of the volume and display-mode getters.
C15_GetBrightnessRequest ==
    ctl.op = "get_brightness" =>
        /\ Len(ctl.transfers) = 1
        /\ ctl.transfers[1].dir = "in"
        /\ ctl.transfers[1].request = 130
        /\ ctl.transfers[1].index = 2

\* a completed display-mode set that reached the transport
DisplayModeSet ==
    /\ ctl.op \in {"set_display_mode", "set_raw_display_mode"}
    /\ ctl.transfers # <<>>

\* C16 as stated: setting the display mode issues a control write with request 0x01,
\* index = the mode code, value = 0x01 and a 1-byte payload.
C16_IndexIsMode ==
    DisplayModeSet =>
        /\ Len(ctl.transfers) = 1
        /\ ctl.transfers[1].dir = "out"
        /\ ctl.transfers[1].request = 1
        /\ ctl.transfers[1].index = ctl.arg[1]
        /\ ctl.transfers[1].value = 1
        /\ Len(ctl.transfers[1].data) = 1

\* C16 (amended): setting the display mode issues one control write with request 0x01,
\* index 0x01, value = the mode code and a 1-byte payload, for set_display_mode with
\* every mode that has an outbound code and for set_raw_display_mode; a mode without
\* a code issues no transfer.
C16_ValueIsMode ==
    /\ DisplayModeSet =>
           /\ Len(ctl.transfers) = 1
           /\ ctl.transfers[1].dir = "out"
           /\ ctl.transfers[1].request = 1
           /\ ctl.transfers[1].index = 1
           /\ ctl.transfers[1].value = ctl.arg[1]
           /\ Len(ctl.transfers[1].data) = 1
    /\ ctl.op = "set_raw_display_mode" => ctl.transfers # <<>>
    /\ ctl.op = "set_display_mode" => (ctl.transfers # <<>> <=> ctl.arg[1] \in {0, 1, 3, 4})

C16_Witness ==
    /\ ctl.op = "set_raw_display_mode"
    /\ ctl.arg = <<3, 1>>
    /\ ctl.transfers[1].value = 3
    /\ ctl.transfers[1].index = 1
    /\ ctl.ret = RetUnit

\* a completed identity getter whose read returned the full 64 bytes
IdentityRead ==
    /\ ctl.op \in IdentityGetters
    /\ ctl.response.kind = "ok"
    /\ ctl.response.n = 64

\* C17: an identity getter whose 64-byte response is valid UTF-8 returns the bytes
\* before the first NUL byte, no NUL and nothing after it; when the response is not
\* valid UTF-8 it returns the hexadecimal dump of the bytes.
C17_NulTerminatedText ==
    IdentityRead =>
        IF from_utf8_ok(Buffer(ctl.response))
        THEN /\ ctl.ret = RetString(take_while_nonzero(Buffer(ctl.response)))
             /\ \A i \in 1..Len(ctl.ret.bytes) : ctl.ret.bytes[i] # 0
        ELSE ctl.ret = RetString(hex_dump(Buffer(ctl.response)))

\* C18 as stated: the identity getters and the serial operation never return an error.
C18_NeverAnError ==
    ctl.op \in IdentityGetters \cup {"serial"} => ctl.ret.kind \notin {"Err", "Panic"}

\* C18 (amended): the seven identity getters never return an error: a failed read
\* returns the text naming the error, a wrong response size the text naming the
\* protocol error, an invalid encoding the hex dump. The serial operation is the
\* exception: it returns an error exactly when its read fails or the bytes before the
\* first NUL are not valid UTF-8.
C18_GettersNeverFail ==
    /\ ctl.op \in IdentityGetters =>
           /\ ctl.ret.kind = "String"
           /\ ctl.response.kind = "err" => ctl.ret = RetUnknown(ctl.response.error)
           /\ (ctl.response.kind = "ok" /\ ctl.response.n # 64) =>
                  ctl.ret = RetUnknown("Protocol error")
           /\ (IdentityRead /\ ~from_utf8_ok(Buffer(ctl.response))) =>
                  ctl.ret = RetString(hex_dump(Buffer(ctl.response)))
    /\ ctl.op = "serial" =>
           /\ ctl.ret.kind \in {"Ok", "Err"}
           /\ ctl.ret.kind = "Err" <=>
                  \/ ctl.response.kind = "err"
                  \/ ~from_utf8_ok(take_while_nonzero(Buffer(ctl.response)))

C18_Witness ==
    /\ ctl.op = "seed"
    /\ ctl.response.kind = "err"
    /\ ctl.ret = RetUnknown("Timeout")

(***************************************************************************)
(* The pending samples and the transport.                                  *)
(***************************************************************************)
\* both pending slots are occupied and carry the same timestamp
EqualPendingPair(acc, gyro) == acc.some /\ gyro.some /\ acc.ts = gyro.ts

\* C21: in every state between two packets the pending accelerometer and the pending
\* gyroscope sample are never both present with equal timestamps: the packet that
\* completes such a pair turns it into an AccGyro event and empties both slots in the
\* same step, so a tag-4 packet of the magnetometer or of an unknown kind never
\* pushes an AccGyro event.
C21_NoEqualPendingPair ==
    /\ ~EqualPendingPair(last_accelerometer, last_gyroscope)
    /\ (Stepped /\ last.packet.tag = TagSensor
          /\ EqualPendingPair(
                 IF last.packet.sensor_type = SensorAccelerometer
                 THEN SampleOf(last.packet) ELSE last.pre.last_accelerometer,
                 IF last.packet.sensor_type = SensorGyroscope
                 THEN SampleOf(last.packet) ELSE last.pre.last_gyroscope)) =>
           /\ last.packet.sensor_type \in {SensorAccelerometer, SensorGyroscope}
           /\ Len(OfType(last.events, "AccGyro")) = 1
           /\ last_accelerometer = None
           /\ last_gyroscope = None
    /\ (Stepped /\ last.packet.tag = TagSensor
          /\ last.packet.sensor_type \notin {SensorAccelerometer, SensorGyroscope}) =>
           /\ OfType(last.events, "AccGyro") = <<>>
           /\ last_accelerometer = last.pre.last_accelerometer
           /\ last_gyroscope = last.pre.last_gyroscope

\* a magnetometer packet arrived while both slots were occupied, with different
\* timestamps, and pushed only its own event
C21_Witness ==
    /\ Stepped
    /\ IsSplit(last.packet, SensorMagnetometer)
    /\ last_accelerometer.some
    /\ last_gyroscope.some
    /\ last_accelerometer.ts # last_gyroscope.ts
    /\ last.packet.timestamp = last_gyroscope.ts
    /\ last.events = <<Magnetometer(last.packet.vector, last.packet.timestamp)>>

\* the fusion state as the variables hold it
Fusion == <<last_accelerometer, last_gyroscope, previous_key_states, proxy_sensor_was_far>>

\* the fusion state the last successfully read packet left, the initial one before any
LeftByLastPacket ==
    IF Stepped THEN FusionOf(process_packet(last.pre, last.packet)) ELSE FusionOf(new_common)

\* C22: read_event reads the transport only while the event queue is empty. A call
\* made while events are queued returns the oldest of them and changes neither the
\* fusion state nor anything the transport touches. A failed read happens with the
\* queue empty, changes nothing, and ends the call with that error: no retry. So
\* whenever a call has returned a transport error the queue is empty and the fusion
\* state is the one the last successfully read packet left.
C22_ReadOnlyWhileEmpty ==
    /\ [][(pc = "loop" /\ pending_events # <<>>) =>
             /\ pc' = "idle"
             /\ result' = Ok(Head(pending_events))
             /\ pending_events' = Tail(pending_events)
             /\ Fusion' = Fusion
             /\ reads' = reads
             /\ last' = last
             /\ transport_error' = transport_error]_vars
    /\ [][(pc = "loop" /\ (reads' # reads \/ last' # last \/ Fusion' # Fusion)) =>
             pending_events = <<>>]_vars
    /\ [][(pc = "loop" /\ result'.kind = "err") =>
             /\ pending_events = <<>>
             /\ pending_events' = <<>>
             /\ Fusion' = Fusion
             /\ last' = last
             /\ pc' = "idle"
             /\ transport_error' \in TransportErrors
             /\ result' = Err(transport_error')]_vars
    /\ [][Fusion' # Fusion => (pc = "loop" /\ pc' = "loop" /\ last'.pre = Self)]_vars
    /\ []((pc = "idle" /\ result.kind = "err") =>
             /\ pending_events = <<>>
             /\ Fusion = LeftByLastPacket)

\* a call read a packet that pushed nothing but changed the fusion state, then its
\* second read failed
C22_Witness ==
    /\ pc = "idle"
    /\ result.kind = "err"
    /\ reads >= 2
    /\ Stepped
    /\ last.events = <<>>
    /\ Fusion # FusionOf(last.pre)
    /\ pending_events = <<>>

====
